---------------------------- MODULE Spec2Model ----------------------------
(***************************************************************************)
(* git-relax: the chat client (src/llm/client.rs), the prompt registry     *)
(* (src/llm/prompts.rs) and the commit and pull-request handlers           *)
(* (src/commands/commit.rs, src/commands/pr.rs), as a state machine.       *)
(*                                                                         *)
(* Text the handlers transform (diffs, completions) is a sequence of       *)
(* one-character strings, so that trim() and to_lowercase() are computed.  *)
(* Text that is only passed along (keys, model names, URLs, prompts) is a  *)
(* TLA+ string.                                                            *)
(***************************************************************************)
EXTENDS Naturals, Sequences, FiniteSets

VARIABLES
    env,         \* the process environment read by LlmClient::new
    cmd,         \* which handler runs, and its base argument
    pc,          \* the handler's position
    diff,        \* the diff text the handler holds
    llm,         \* the LlmClient the handler holds
    newResult,   \* what LlmClient::new returned
    chat,        \* the chat call in progress: position and arguments
    resp,        \* the response the provider sent to the call in progress
    chatResult,  \* what the last chat call returned
    chatLog,     \* every chat call so far: arguments, then outcome
    requests,    \* every request chat() has built and handed to send()
    wire,        \* the HTTP requests the call in progress has put on the wire
    title,       \* pr.rs: title
    body,        \* pr.rs: body
    message,     \* commit.rs: message
    final_msg,   \* commit.rs: final_msg
    confirmed,   \* what confirm(...).interact() answered
    detected,    \* what has_upstream() answered
    upstream,    \* whether the branch has an upstream
    effects,     \* every git commit, git push and gh pr create attempted
    result       \* what run() returned

vars == <<env, cmd, pc, diff, llm, newResult, chat, resp, chatResult, chatLog,
          requests, wire, title, body, message, final_msg, confirmed,
          detected, upstream, effects, result>>

-----------------------------------------------------------------------------
(* Bounds *)

\* the longest choices sequence a provider response carries
MaxChoices == 2

\* the most redirections the provider answers one chat call with
MaxRedirects == 1

-----------------------------------------------------------------------------
(* Text *)

\* the bytes 0xFF cannot occur in UTF-8; U+FFFD is what lossy decoding yields
BadByte == "\\xFF"
Replacement == "U+FFFD"

\* char::is_whitespace, on the characters of the model
IsWhitespace(c) == c \in {" ", "\n"}

\* char::to_lowercase, on the characters of the model
LowerChar(c) ==
    CASE c = "A" -> "a"
      [] c = "F" -> "f"
      [] OTHER -> c

\* str::to_lowercase
to_lowercase(s) == [i \in 1..Len(s) |-> LowerChar(s[i])]

RECURSIVE trim_start(_)
trim_start(s) ==
    IF s = <<>> THEN <<>>
    ELSE IF IsWhitespace(Head(s)) THEN trim_start(Tail(s))
    ELSE s

RECURSIVE trim_end(_)
trim_end(s) ==
    IF s = <<>> THEN <<>>
    ELSE IF IsWhitespace(s[Len(s)]) THEN trim_end(SubSeq(s, 1, Len(s) - 1))
    ELSE s

\* str::trim
trim(s) == trim_end(trim_start(s))

\* String::from_utf8_lossy, and the decoding of Response::text
from_utf8_lossy(bytes) ==
    [i \in 1..Len(bytes) |-> IF bytes[i] = BadByte THEN Replacement ELSE bytes[i]]

-----------------------------------------------------------------------------
(* Results and errors *)

NoErr == [kind |-> "none", msg |-> "", arg |-> <<>>]

Ok(v) == [ok |-> TRUE, val |-> v, err |-> NoErr]

\* a failed Result; filler stands where the value would be
Fail(e, filler) == [ok |-> FALSE, val |-> filler, err |-> e]

\* anyhow!(msg, arg)
Anyhow(m, a) == [kind |-> "anyhow", msg |-> m, arg |-> a]

\* a reqwest::Error raised while sending, reading the body or decoding it
Reqwest(stage) == [kind |-> "reqwest", msg |-> stage, arg |-> <<>>]

\* a std::io::Error from spawning a process or from the terminal
IoError(what) == [kind |-> "io", msg |-> what, arg |-> <<>>]

\* run() has not returned yet
Pending == [ok |-> FALSE, val |-> <<>>, err |-> [kind |-> "pending", msg |-> "", arg |-> <<>>]]

-----------------------------------------------------------------------------
(* Prompt registry *)

COMMIT == "Generate a commit message from this diff.\nFormat: <type>(<scope>): <description>\nTypes: feat|fix|docs|refactor|test|chore\nRules: lowercase, imperative mood, max 50 chars, no period\nOutput ONLY the message."

PR_TITLE == "Generate a PR title from this diff.\nFormat: <type>(<scope>): <description>\nTypes: feat|fix|docs|refactor|test|chore\nRules: lowercase, imperative mood, max 50 chars\nOutput ONLY the title."

PR_BODY == "Generate a PR description from this diff.\nFormat:\n## Summary\n<1-2 sentences>\n\n## Changes\n<bullet points>\n\nBe concise. Output ONLY the description."

Prompts == {COMMIT, PR_TITLE, PR_BODY}

-----------------------------------------------------------------------------
(* Provider resolution *)

OPENROUTER_URL == "https://openrouter.ai/api/v1/chat/completions"
OPENROUTER_MODEL == "google/gemini-2.0-flash-001"
OPENAI_URL == "https://api.openai.com/v1/chat/completions"
OPENAI_MODEL == "gpt-4o-mini"

\* an environment variable: absent, present with a value that is not valid
\* Unicode, or present with a string value (the empty string included)
Unset == [set |-> FALSE, unicode |-> FALSE, val |-> ""]
NotUnicode == [set |-> TRUE, unicode |-> FALSE, val |-> ""]
Value(s) == [set |-> TRUE, unicode |-> TRUE, val |-> s]

\* std::env::var: Err(NotPresent) when absent, Err(NotUnicode) when the value
\* is not valid Unicode, Ok(value) otherwise
env_var(e, name) ==
    IF e[name].set /\ e[name].unicode
    THEN Ok(e[name].val)
    ELSE Fail(IoError(IF e[name].set THEN "NotUnicode" ELSE "NotPresent"), "")

\* Result::unwrap_or_else
unwrap_or_else(r, default) == IF r.ok THEN r.val ELSE default

NoClient == [api_key |-> "", model |-> "", base_url |-> ""]

MissingCredentials == Anyhow("Set OPENROUTER_API_KEY or OPENAI_API_KEY", <<>>)

\* LlmClient::new with the last branch building a client from defaults
LlmClient_new_default(e) ==
    IF env_var(e, "OPENROUTER_API_KEY").ok
    THEN Ok([api_key |-> env_var(e, "OPENROUTER_API_KEY").val,
             model |-> unwrap_or_else(env_var(e, "LLM_MODEL"), OPENROUTER_MODEL),
             base_url |-> OPENROUTER_URL])
    ELSE Ok([api_key |-> unwrap_or_else(env_var(e, "OPENAI_API_KEY"), ""),
             model |-> unwrap_or_else(env_var(e, "LLM_MODEL"), OPENAI_MODEL),
             base_url |-> OPENAI_URL])

\* LlmClient::new
LlmClient_new(e) ==
    IF env_var(e, "OPENROUTER_API_KEY").ok
    THEN Ok([api_key |-> env_var(e, "OPENROUTER_API_KEY").val,
             model |-> unwrap_or_else(env_var(e, "LLM_MODEL"), OPENROUTER_MODEL),
             base_url |-> OPENROUTER_URL])
    ELSE IF env_var(e, "OPENAI_API_KEY").ok
    THEN Ok([api_key |-> env_var(e, "OPENAI_API_KEY").val,
             model |-> unwrap_or_else(env_var(e, "LLM_MODEL"), OPENAI_MODEL),
             base_url |-> OPENAI_URL])
    ELSE Fail(MissingCredentials, NoClient)

-----------------------------------------------------------------------------
(* Chat exchange *)

\* the request with the user message put first
ChatRequest_swapped(c, system, user) ==
    [method |-> "POST",
     url |-> c.base_url,
     authorization |-> <<"Bearer ", c.api_key>>,
     json |-> [model |-> c.model,
               messages |-> << [role |-> "user", content |-> user],
                               [role |-> "system", content |-> system] >>]]

\* the request chat() builds: POST, bearer authorization, JSON ChatRequest
ChatRequest(c, system, user) ==
    [method |-> "POST",
     url |-> c.base_url,
     authorization |-> <<"Bearer ", c.api_key>>,
     json |-> [model |-> c.model,
               messages |-> << [role |-> "system", content |-> system],
                               [role |-> "user", content |-> user] >>]]

\* a status check that lets redirections through
is_success_lenient(status) == 200 <= status /\ status <= 399

\* StatusCode::is_success
is_success(status) == 200 <= status /\ status <= 299

\* Vec::last in the place of Vec::first
first_last(choices) == IF choices = <<>> THEN <<>> ELSE <<choices[Len(choices)]>>

\* Vec::first as an Option: the empty sequence or a sequence of one element
first(choices) == IF choices = <<>> THEN <<>> ELSE <<choices[1]>>

\* lines 76-83 with unwrap_or_default in the place of ok_or_else
HandleResponse_default(r) ==
    IF ~is_success(r.status)
    THEN IF r.readOk
         THEN Fail(Anyhow("API error: {}", from_utf8_lossy(r.bytes)), <<>>)
         ELSE Fail(Reqwest("body"), <<>>)
    ELSE IF ~r.readOk THEN Fail(Reqwest("body"), <<>>)
    ELSE IF ~r.doc.valid THEN Fail(Reqwest("decode"), <<>>)
    ELSE IF first(r.doc.choices) = <<>>
         THEN Ok(<<>>)
         ELSE Ok(first(r.doc.choices)[1])

\* lines 76-83 of chat(): status check, then decoding and extraction
HandleResponse(r) ==
    IF ~is_success(r.status)
    THEN IF r.readOk
         THEN Fail(Anyhow("API error: {}", from_utf8_lossy(r.bytes)), <<>>)
         ELSE Fail(Reqwest("body"), <<>>)
    ELSE IF ~r.readOk THEN Fail(Reqwest("body"), <<>>)
    ELSE IF ~r.doc.valid THEN Fail(Reqwest("decode"), <<>>)
    ELSE IF first(r.doc.choices) = <<>>
         THEN Fail(Anyhow("No response", <<>>), <<>>)
         ELSE Ok(first(r.doc.choices)[1])

\* the keys of the model that hold a control character (a line feed)
ControlKeys == {"sk-or\n"}

\* RequestBuilder::header, line 65: http::HeaderValue refuses a value that
\* holds a control character, and send() then fails before anything is sent
is_valid_header_value(key) == key \notin ControlKeys

\* where a redirection may point: a URL on another host
MIRROR_URL == "https://mirror.example/v1/chat/completions"

Locations == {MIRROR_URL}

\* scheme, host and port of the URLs of the model
Origin(url) ==
    CASE url = OPENROUTER_URL -> "https://openrouter.ai"
      [] url = OPENAI_URL -> "https://api.openai.com"
      [] OTHER -> "https://mirror.example"

\* the statuses the client built by Client::new() (line 59) follows
RedirectStatuses == {301, 302, 303, 307, 308}

\* the default redirect policy of Client::new(): Policy::limited(10)
RedirectLimit == 10

None == <<>>
Some(x) == <<x>>

\* send() follows a response: a redirect status with a Location header
should_redirect(r) == r.status \in RedirectStatuses /\ r.location # None

NoBody == [model |-> "", messages |-> <<>>]

\* the request send() issues next when it follows response r to request req:
\* 301, 302 and 303 turn it into a GET without body, 307 and 308 repeat the
\* method and the body; Authorization is dropped when the origin changes
Redirect(req, r) ==
    [method |-> IF r.status \in {301, 302, 303} THEN "GET" ELSE req.method,
     url |-> r.location[1],
     authorization |-> IF Origin(r.location[1]) = Origin(req.url)
                       THEN req.authorization ELSE <<>>,
     json |-> IF r.status \in {301, 302, 303} THEN NoBody ELSE req.json]

-----------------------------------------------------------------------------
(* Inputs *)

Envs ==
    [OPENROUTER_API_KEY : {Unset, NotUnicode, Value(""), Value("sk-or"),
                           Value("sk-or\n")},
     OPENAI_API_KEY : {Unset, NotUnicode, Value("sk-oa")},
     LLM_MODEL : {Unset, NotUnicode, Value("my/model")}]

Commands ==
    {[name |-> "commit", base |-> None]}
    \cup {[name |-> "pr", base |-> b] : b \in {None, Some("dev")}}

\* what git diff may print (bytes of stdout)
DiffOutputs == {<<>>, <<" ", "\n">>, <<"+", "F", "\n">>, <<BadByte>>}

\* what a choice's message.content may be
Contents == {<<>>, <<" ", "F", "\n">>, <<"f", "A">>}

\* the bodies a provider may send with a failure status (bytes)
ErrorBodies == {<<>>, <<"i", "n", "v">>, <<BadByte>>}

Statuses == {200, 299, 300, 301, 302, 303, 307, 308, 401}

RECURSIVE SeqsUpTo(_, _)
SeqsUpTo(S, n) ==
    IF n = 0 THEN {<<>>}
    ELSE SeqsUpTo(S, n - 1)
         \cup {Append(q, x) : q \in {r \in SeqsUpTo(S, n - 1) : Len(r) = n - 1}, x \in S}

\* a JSON body that does not deserialize into ChatResponse
BadDoc == [valid |-> FALSE, choices |-> <<>>]

Docs == {BadDoc} \cup {[valid |-> TRUE, choices |-> cs] : cs \in SeqsUpTo(Contents, MaxChoices)}

\* no response was handed to chat(): send() failed
NoResponse ==
    [status |-> 0, location |-> None, readOk |-> FALSE, bytes |-> <<>>,
     doc |-> BadDoc]

\* a response: its status, its Location header, whether its body can be read
\* to the end, and the body, as bytes where chat() reads text and as a
\* document where it reads JSON
Responses ==
    {[status |-> st, location |-> None, readOk |-> TRUE, bytes |-> b,
      doc |-> BadDoc] :
        st \in {x \in Statuses : ~is_success(x)}, b \in ErrorBodies}
    \cup {[status |-> st, location |-> None, readOk |-> TRUE, bytes |-> <<>>,
           doc |-> d] :
        st \in {x \in Statuses : is_success(x)}, d \in Docs}
    \cup {[status |-> st, location |-> None, readOk |-> FALSE, bytes |-> <<>>,
           doc |-> BadDoc] :
        st \in Statuses}
    \cup {[status |-> st, location |-> Some(l), readOk |-> TRUE, bytes |-> <<>>,
           doc |-> BadDoc] :
        st \in RedirectStatuses, l \in Locations}

\* what the provider may answer to the n-th request of a call
Replies(n) ==
    IF n <= MaxRedirects THEN Responses
    ELSE {r \in Responses : ~should_redirect(r)}

Idle == [state |-> "idle", system |-> "", user |-> <<>>]

\* LlmClient::new has not been called
NotCalled == Fail([kind |-> "pending", msg |-> "", arg |-> <<>>], NoClient)

Effect(prog, msg, t, b, base, outcome) ==
    [prog |-> prog, msg |-> msg, title |-> t, body |-> b, base |-> base,
     outcome |-> outcome]

\* how a spawned process ends: it could not be spawned, or its exit status
Outcomes == {"spawn_failed", "failed", "success"}

-----------------------------------------------------------------------------
(* Initial state *)

InitCommon ==
    /\ env \in Envs
    /\ diff = <<>>
    /\ llm = NoClient
    /\ newResult = NotCalled
    /\ chat = Idle
    /\ resp = NoResponse
    /\ chatResult = Pending
    /\ chatLog = <<>>
    /\ requests = <<>>
    /\ wire = <<>>
    /\ title = <<>>
    /\ body = <<>>
    /\ message = <<>>
    /\ final_msg = <<>>
    /\ confirmed = "none"
    /\ detected = "none"
    /\ effects = <<>>
    /\ result = Pending

Init ==
    /\ InitCommon
    /\ cmd \in Commands
    /\ upstream \in BOOLEAN
    /\ pc = "start"

\* run() returns r
Return(r) ==
    /\ pc' = "done"
    /\ result' = r

\* the ? operator on a failed Result: run() returns its error
Propagate(r) == Return(Fail(r.err, <<>>))

\* a cliclack log call followed by Ok(()): the terminal write may fail
LogThenOk ==
    \E io \in BOOLEAN : Return(IF io THEN Ok(<<>>) ELSE Fail(IoError("terminal"), <<>>))

-----------------------------------------------------------------------------
(* Chat call: shared by the handlers *)

\* a handler calls llm.chat(system, user)
Call(system, user) ==
    /\ chat' = [state |-> "call", system |-> system, user |-> user]
    /\ chatLog' = Append(chatLog, [system |-> system, user |-> user,
                                   done |-> FALSE, res |-> Pending])

Finish(r) ==
    /\ chatResult' = r
    /\ chatLog' = [chatLog EXCEPT ![Len(chatLog)] = [@ EXCEPT !.done = TRUE, !.res = r]]

\* send() hands its outcome to chat(): a failure, or a response to look at
Transfer(failed, n) ==
    IF failed
    THEN /\ resp' = NoResponse
         /\ Finish(Fail(Reqwest("send"), <<>>))
         /\ chat' = [chat EXCEPT !.state = "ret"]
    ELSE /\ resp' \in Replies(n)
         /\ chat' = [chat EXCEPT !.state = "sent"]
         /\ UNCHANGED <<chatResult, chatLog>>

\* chat(), lines 63-74: build the request and send() it: nothing is sent when
\* the Authorization value is refused, else the POST goes out and either
\* fails in transport or is answered
chat_send ==
    /\ chat.state = "call"
    /\ requests' = Append(requests, ChatRequest(llm, chat.system, chat.user))
    /\ IF ~is_valid_header_value(llm.api_key)
       THEN /\ resp' = NoResponse
            /\ Finish(Fail(Reqwest("builder"), <<>>))
            /\ chat' = [chat EXCEPT !.state = "ret"]
            /\ UNCHANGED wire
       ELSE /\ wire' = Append(wire, ChatRequest(llm, chat.system, chat.user))
            /\ \E failed \in BOOLEAN : Transfer(failed, Len(wire'))
    /\ UNCHANGED <<env, cmd, pc, diff, llm, newResult, title, body, message,
                   final_msg, confirmed, detected, upstream, effects, result>>

\* still inside send(), line 73: the client built by Client::new() follows a
\* redirection with a further request, up to its limit
follow_redirect ==
    /\ chat.state = "sent"
    /\ should_redirect(resp)
    /\ IF Len(wire) >= RedirectLimit
       THEN /\ resp' = NoResponse
            /\ Finish(Fail(Reqwest("redirect"), <<>>))
            /\ chat' = [chat EXCEPT !.state = "ret"]
            /\ UNCHANGED wire
       ELSE /\ wire' = Append(wire, Redirect(wire[Len(wire)], resp))
            /\ \E failed \in BOOLEAN : Transfer(failed, Len(wire'))
    /\ UNCHANGED <<env, cmd, pc, diff, llm, newResult, requests, title, body,
                   message, final_msg, confirmed, detected, upstream, effects,
                   result>>

\* chat(), lines 76-84: status check, decoding, first choice
chat_recv ==
    /\ chat.state = "sent"
    /\ ~should_redirect(resp)
    /\ Finish(HandleResponse(resp))
    /\ chat' = [chat EXCEPT !.state = "ret"]
    /\ UNCHANGED <<env, cmd, pc, diff, llm, newResult, resp, requests, wire,
                   title, body, message, final_msg, confirmed, detected,
                   upstream, effects, result>>

-----------------------------------------------------------------------------
(* Steps common to both handlers *)

\* commit.rs line 9, pr.rs line 10: git(&["diff", ...])?
GitDiff ==
    /\ pc = "start"
    /\ \/ Return(Fail(IoError("spawn git"), <<>>)) /\ UNCHANGED diff
       \/ \E out \in DiffOutputs :
            /\ diff' = from_utf8_lossy(out)
            /\ pc' = "diffed"
            /\ UNCHANGED result
    /\ UNCHANGED <<wire, env, cmd, llm, newResult, chat, resp, chatResult, chatLog,
                   requests, title, body, message, final_msg, confirmed,
                   detected, upstream, effects>>

\* commit.rs lines 10-13, pr.rs lines 12-15: nothing to describe
NoChanges ==
    /\ pc = "diffed"
    /\ trim(diff) = <<>>
    /\ LogThenOk
    /\ UNCHANGED <<wire, env, cmd, diff, llm, newResult, chat, resp, chatResult,
                   chatLog, requests, title, body, message, final_msg,
                   confirmed, detected, upstream, effects>>

\* commit.rs line 18, pr.rs line 20: let llm = LlmClient::new()?
New ==
    /\ pc = "diffed"
    /\ trim(diff) # <<>>
    /\ newResult' = LlmClient_new(env)
    /\ IF newResult'.ok
       THEN /\ llm' = newResult'.val
            /\ pc' = "llm"
            /\ UNCHANGED result
       ELSE /\ Propagate(newResult')
            /\ UNCHANGED llm
    /\ UNCHANGED <<wire, env, cmd, diff, chat, resp, chatResult, chatLog, requests,
                   title, body, message, final_msg, confirmed, detected,
                   upstream, effects>>

-----------------------------------------------------------------------------
(* commit.rs: run *)

\* line 19: llm.chat(prompts::COMMIT, &diff) is called
CommitChat ==
    /\ cmd.name = "commit"
    /\ pc = "llm"
    /\ Call(COMMIT, diff)
    /\ pc' = "await_message"
    /\ UNCHANGED <<wire, env, cmd, diff, llm, newResult, resp, chatResult, requests,
                   title, body, message, final_msg, confirmed, detected,
                   upstream, effects, result>>

\* line 19: .await?.trim().to_lowercase()
CommitMessage ==
    /\ pc = "await_message"
    /\ chat.state = "ret"
    /\ chat' = Idle
    /\ wire' = <<>>
    /\ IF chatResult.ok
       THEN /\ message' = to_lowercase(trim(chatResult.val))
            /\ pc' = "input"
            /\ UNCHANGED result
       ELSE /\ Propagate(chatResult)
            /\ UNCHANGED message
    /\ UNCHANGED <<env, cmd, diff, llm, newResult, resp, chatResult, chatLog,
                   requests, title, body, final_msg, confirmed, detected,
                   upstream, effects>>

\* what the user may leave in the input box: the default, or a text typed
EditedMessages == {message, <<"f", "i", "x">>}

\* lines 23-25: input("Edit message").default_input(&message).interact()?
EditMessage ==
    /\ pc = "input"
    /\ \/ Return(Fail(IoError("terminal"), <<>>)) /\ UNCHANGED final_msg
       \/ /\ final_msg' \in EditedMessages
          /\ pc' = "confirm"
          /\ UNCHANGED result
    /\ UNCHANGED <<wire, env, cmd, diff, llm, newResult, chat, resp, chatResult,
                   chatLog, requests, title, body, message, confirmed,
                   detected, upstream, effects>>

\* line 27: confirm("Commit?").initial_value(true).interact()?
CommitConfirm ==
    /\ cmd.name = "commit"
    /\ pc = "confirm"
    /\ \E answer \in {"yes", "no", "error"} :
        /\ confirmed' = answer
        /\ CASE answer = "yes" -> pc' = "commit" /\ UNCHANGED result
             [] answer = "no" -> Return(Ok(<<>>))
             [] OTHER -> Return(Fail(IoError("terminal"), <<>>))
    /\ UNCHANGED <<wire, env, cmd, diff, llm, newResult, chat, resp, chatResult,
                   chatLog, requests, title, body, message, final_msg,
                   detected, upstream, effects>>

\* lines 28-36: git commit -m final_msg
GitCommit ==
    /\ pc = "commit"
    /\ \E o \in Outcomes :
        /\ effects' = Append(effects, Effect("git commit", final_msg, <<>>, <<>>, "", o))
        /\ CASE o = "spawn_failed" -> Return(Fail(IoError("spawn git"), <<>>))
             [] o = "failed" -> Return(Fail(Anyhow("git commit failed", <<>>), <<>>))
             [] OTHER -> LogThenOk
    /\ UNCHANGED <<wire, env, cmd, diff, llm, newResult, chat, resp, chatResult,
                   chatLog, requests, title, body, message, final_msg,
                   confirmed, detected, upstream>>

-----------------------------------------------------------------------------
(* pr.rs: run *)

\* line 9: base.unwrap_or_else(|| "main".into())
Base == IF cmd.base = None THEN "main" ELSE cmd.base[1]

\* lines 21-22: llm.chat(prompts::PR_TITLE, &diff) is called
PrTitleChat ==
    /\ cmd.name = "pr"
    /\ pc = "llm"
    /\ Call(PR_TITLE, diff)
    /\ pc' = "await_title"
    /\ UNCHANGED <<wire, env, cmd, diff, llm, newResult, resp, chatResult, requests,
                   title, body, message, final_msg, confirmed, detected,
                   upstream, effects, result>>

\* lines 23-25: .await?.trim().to_lowercase()
PrTitle ==
    /\ pc = "await_title"
    /\ chat.state = "ret"
    /\ chat' = Idle
    /\ wire' = <<>>
    /\ IF chatResult.ok
       THEN /\ title' = to_lowercase(trim(chatResult.val))
            /\ pc' = "titled"
            /\ UNCHANGED result
       ELSE /\ Propagate(chatResult)
            /\ UNCHANGED title
    /\ UNCHANGED <<env, cmd, diff, llm, newResult, resp, chatResult, chatLog,
                   requests, body, message, final_msg, confirmed, detected,
                   upstream, effects>>

\* line 26: llm.chat(prompts::PR_BODY, &diff) is called
PrBodyChat ==
    /\ pc = "titled"
    /\ Call(PR_BODY, diff)
    /\ pc' = "await_body"
    /\ UNCHANGED <<wire, env, cmd, diff, llm, newResult, resp, chatResult, requests,
                   title, body, message, final_msg, confirmed, detected,
                   upstream, effects, result>>

\* line 26 with the failed call replaced by an empty body
PrBody_unwrap_or_default ==
    /\ pc = "await_body"
    /\ chat.state = "ret"
    /\ chat' = Idle
    /\ wire' = <<>>
    /\ body' = IF chatResult.ok THEN trim(chatResult.val) ELSE <<>>
    /\ pc' = "confirm"
    /\ UNCHANGED <<env, cmd, diff, llm, newResult, resp, chatResult, chatLog,
                   requests, title, message, final_msg, confirmed, detected,
                   upstream, effects, result>>

\* line 26: .await?.trim().to_string()
PrBody ==
    /\ pc = "await_body"
    /\ chat.state = "ret"
    /\ chat' = Idle
    /\ wire' = <<>>
    /\ IF chatResult.ok
       THEN /\ body' = trim(chatResult.val)
            /\ pc' = "confirm"
            /\ UNCHANGED result
       ELSE /\ Propagate(chatResult)
            /\ UNCHANGED body
    /\ UNCHANGED <<env, cmd, diff, llm, newResult, resp, chatResult, chatLog,
                   requests, title, message, final_msg, confirmed, detected,
                   upstream, effects>>

\* line 34: confirm("Create PR?").initial_value(true).interact()?
PrConfirm ==
    /\ cmd.name = "pr"
    /\ pc = "confirm"
    /\ \E answer \in {"yes", "no", "error"} :
        /\ confirmed' = answer
        /\ CASE answer = "yes" -> pc' = "upstream" /\ UNCHANGED result
             [] answer = "no" -> Return(Ok(<<>>))
             [] OTHER -> Return(Fail(IoError("terminal"), <<>>))
    /\ UNCHANGED <<wire, env, cmd, diff, llm, newResult, chat, resp, chatResult,
                   chatLog, requests, title, body, message, final_msg,
                   detected, upstream, effects>>

\* lines 76-82: git rev-parse --abbrev-ref @{u} was spawned and succeeded
has_upstream(spawned, tracked) == spawned /\ tracked

\* line 35: if !has_upstream()
HasUpstream ==
    /\ pc = "upstream"
    /\ \E spawned \in BOOLEAN :
        /\ detected' = IF has_upstream(spawned, upstream) THEN "yes" ELSE "no"
        /\ pc' = IF has_upstream(spawned, upstream) THEN "create" ELSE "push"
    /\ UNCHANGED <<wire, env, cmd, diff, llm, newResult, chat, resp, chatResult,
                   chatLog, requests, title, body, message, final_msg,
                   confirmed, upstream, effects, result>>

\* lines 36-45 without the check of the exit status
GitPush_unchecked ==
    /\ pc = "push"
    /\ \E o \in Outcomes :
        /\ effects' = Append(effects, Effect("git push", <<>>, <<>>, <<>>, "", o))
        /\ CASE o = "spawn_failed" ->
                  Return(Fail(IoError("spawn git"), <<>>)) /\ UNCHANGED upstream
             [] o = "failed" -> pc' = "create" /\ UNCHANGED <<upstream, result>>
             [] OTHER -> pc' = "create" /\ upstream' = TRUE /\ UNCHANGED result
    /\ UNCHANGED <<wire, env, cmd, diff, llm, newResult, chat, resp, chatResult,
                   chatLog, requests, title, body, message, final_msg,
                   confirmed, detected>>

\* lines 36-45: git push -u origin HEAD
GitPush ==
    /\ pc = "push"
    /\ \E o \in Outcomes :
        /\ effects' = Append(effects, Effect("git push", <<>>, <<>>, <<>>, "", o))
        /\ CASE o = "spawn_failed" ->
                  Return(Fail(IoError("spawn git"), <<>>)) /\ UNCHANGED upstream
             [] o = "failed" ->
                  Return(Fail(Anyhow("git push failed", <<>>), <<>>)) /\ UNCHANGED upstream
             [] OTHER -> pc' = "create" /\ upstream' = TRUE /\ UNCHANGED result
    /\ UNCHANGED <<wire, env, cmd, diff, llm, newResult, chat, resp, chatResult,
                   chatLog, requests, title, body, message, final_msg,
                   confirmed, detected>>

\* lines 47-65: gh pr create --title title --body body --base base
\* (the text of stderr in the error message is left out)
GhPrCreate ==
    /\ pc = "create"
    /\ \E o \in Outcomes :
        /\ effects' = Append(effects, Effect("gh pr create", <<>>, title, body, Base, o))
        /\ CASE o = "spawn_failed" -> Return(Fail(IoError("spawn gh"), <<>>))
             [] o = "failed" -> Return(Fail(Anyhow("gh pr create failed: {}", <<>>), <<>>))
             [] OTHER -> LogThenOk
    /\ UNCHANGED <<wire, env, cmd, diff, llm, newResult, chat, resp, chatResult,
                   chatLog, requests, title, body, message, final_msg,
                   confirmed, detected, upstream>>

-----------------------------------------------------------------------------
(* The handlers' specification *)

Next ==
    \/ GitDiff
    \/ NoChanges
    \/ New
    \/ CommitChat
    \/ chat_send
    \/ follow_redirect
    \/ chat_recv
    \/ CommitMessage
    \/ EditMessage
    \/ CommitConfirm
    \/ GitCommit
    \/ PrTitleChat
    \/ PrTitle
    \/ PrBodyChat
    \/ PrBody
    \/ PrConfirm
    \/ HasUpstream
    \/ GitPush
    \/ GhPrCreate

Spec == Init /\ [][Next]_vars

-----------------------------------------------------------------------------
(* chat() called directly, with any prompt and any user content *)

UserContents == {<<>>, <<" ">>, <<"+", "F", "\n">>, <<Replacement>>}

InitChat ==
    /\ InitCommon
    /\ cmd = [name |-> "chat", base |-> None]
    /\ upstream = FALSE
    /\ pc = "new"

\* LlmClient::new()
CallNew ==
    /\ pc = "new"
    /\ newResult' = LlmClient_new(env)
    /\ IF newResult'.ok
       THEN /\ llm' = newResult'.val
            /\ pc' = "llm"
            /\ UNCHANGED result
       ELSE /\ Propagate(newResult')
            /\ UNCHANGED llm
    /\ UNCHANGED <<wire, env, cmd, diff, chat, resp, chatResult, chatLog, requests,
                   title, body, message, final_msg, confirmed, detected,
                   upstream, effects>>

\* llm.chat(system, user) is called
CallChat ==
    /\ cmd.name = "chat"
    /\ pc = "llm"
    /\ \E system \in Prompts, user \in UserContents : Call(system, user)
    /\ pc' = "await"
    /\ UNCHANGED <<wire, env, cmd, diff, llm, newResult, resp, chatResult, requests,
                   title, body, message, final_msg, confirmed, detected,
                   upstream, effects, result>>

\* the call returns to its caller
ChatReturns ==
    /\ pc = "await"
    /\ chat.state = "ret"
    /\ chat' = Idle
    /\ wire' = <<>>
    /\ Return(chatResult)
    /\ UNCHANGED <<env, cmd, diff, llm, newResult, resp, chatResult, chatLog,
                   requests, title, body, message, final_msg, confirmed,
                   detected, upstream, effects>>

NextChat ==
    \/ CallNew
    \/ CallChat
    \/ chat_send
    \/ follow_redirect
    \/ chat_recv
    \/ ChatReturns

SpecChat == InitChat /\ [][NextChat]_vars

-----------------------------------------------------------------------------
(* Properties *)

NewCalled == newResult.err.kind # "pending"

A_set == env.OPENROUTER_API_KEY.set
B_set == env.OPENAI_API_KEY.set

\* the exchange of the chat call in progress has ended and chat() has returned
Returned == chat.state = "ret"

\* a response was received with a status in 200..=299
GotSuccess == resp.status >= 200 /\ resp.status <= 299

\* a response was received with a status outside 200..=299
GotFailure == resp.status # 0 /\ ~GotSuccess

\* C1: whenever OPENROUTER_API_KEY and OPENAI_API_KEY are both set,
\* LlmClient::new yields a client whose key is the value of
\* OPENROUTER_API_KEY and whose endpoint is OpenRouter's.
C1_SourceAWins ==
    (NewCalled /\ A_set /\ B_set) =>
        /\ newResult.ok
        /\ llm.api_key = env.OPENROUTER_API_KEY.val
        /\ llm.base_url = OPENROUTER_URL

\* C2: whenever exactly one credential variable is set, LlmClient::new yields
\* a client whose model is the value of LLM_MODEL when LLM_MODEL is set, and
\* the default model of the provider whose credential is set otherwise.
C2_ModelResolution ==
    /\ (NewCalled /\ A_set /\ ~B_set) =>
          /\ newResult.ok
          /\ llm.model = IF env.LLM_MODEL.set THEN env.LLM_MODEL.val
                         ELSE "google/gemini-2.0-flash-001"
    /\ (NewCalled /\ B_set /\ ~A_set) =>
          /\ newResult.ok
          /\ llm.model = IF env.LLM_MODEL.set THEN env.LLM_MODEL.val
                         ELSE "gpt-4o-mini"

\* C3: whenever neither credential variable is set, no client is ever held,
\* no chat call is made and no request is built or sent in the run, and once
\* LlmClient::new has been called it has failed with the missing-credentials
\* error, which is what run() returned.
C3_MissingCredentials ==
    (~A_set /\ ~B_set) =>
        /\ llm = NoClient
        /\ chatLog = <<>>
        /\ requests = <<>>
        /\ wire = <<>>
        /\ NewCalled =>
            /\ ~newResult.ok
            /\ newResult.err.kind = "anyhow"
            /\ newResult.err.msg = "Set OPENROUTER_API_KEY or OPENAI_API_KEY"
            /\ pc = "done"
            /\ ~result.ok
            /\ result.err = newResult.err

C3_Witness ==
    /\ ~A_set /\ ~B_set
    /\ env.LLM_MODEL = Value("my/model")
    /\ NewCalled
    /\ pc = "done"

\* C4: every request issued carries the client's model and exactly two
\* messages, the system message with the prompt first and the user message
\* with the user content second, and every chat call that is past its send
\* has handed its request to send(), whatever the user content; the first
\* request send() puts on the wire is that request.
C4_RequestShape ==
    /\ \A i \in 1..Len(requests) :
        /\ i <= Len(chatLog)
        /\ requests[i].json.model = newResult.val.model
        /\ Len(requests[i].json.messages) = 2
        /\ requests[i].json.messages[1].role = "system"
        /\ requests[i].json.messages[2].role = "user"
        /\ requests[i].json.messages[1].content = chatLog[i].system
        /\ requests[i].json.messages[2].content = chatLog[i].user
    /\ chat.state \in {"sent", "ret"} => Len(requests) = Len(chatLog)
    /\ wire # <<>> =>
        /\ wire[1].method = "POST"
        /\ wire[1].json = requests[Len(requests)].json

C4_Witness ==
    /\ chat.state = "sent"
    /\ chat.user = <<>>
    /\ Len(requests) = 1
    /\ requests[1].json.messages[2].content = <<>>
    /\ Len(wire) = 1
    /\ wire[1].json.messages[2].content = <<>>

\* C5 as stated: a response with a status outside 200..=299 makes chat()
\* fail with the API error that carries the text of the response body.
C5_ProviderErrorAlways ==
    (Returned /\ GotFailure) =>
        /\ ~chatResult.ok
        /\ chatResult.err = Anyhow("API error: {}", from_utf8_lossy(resp.bytes))

\* C5, amended: a response with a status outside 200..=299 makes chat() fail;
\* the error is the API error carrying the text of the response body when the
\* body could be read, and the error of the read when it could not.
C5_ProviderError ==
    (Returned /\ GotFailure) =>
        /\ ~chatResult.ok
        /\ resp.readOk =>
             chatResult.err = Anyhow("API error: {}", from_utf8_lossy(resp.bytes))
        /\ ~resp.readOk => chatResult.err = Reqwest("body")

C5_Witness ==
    /\ Returned
    /\ resp.status = 401
    /\ resp.readOk
    /\ resp.bytes = <<"i", "n", "v">>
    /\ chatResult.err.arg = <<"i", "n", "v">>

\* C6: a response with a success status and a well-formed body whose choices
\* are empty makes chat() fail with the "No response" error, which is neither
\* the API error nor a transport error.
C6_EmptyCompletion ==
    (Returned /\ GotSuccess /\ resp.readOk /\ resp.doc.valid
        /\ resp.doc.choices = <<>>) =>
        /\ ~chatResult.ok
        /\ chatResult.err.kind = "anyhow"
        /\ chatResult.err.msg = "No response"
        /\ chatResult.err.msg # "API error: {}"

C6_Witness ==
    /\ Returned
    /\ resp.status = 200
    /\ resp.readOk
    /\ resp.doc.valid
    /\ resp.doc.choices = <<>>
    /\ ~chatResult.ok

\* C7: a response with a success status and at least one choice makes chat()
\* return the content of the first choice, character for character.
C7_FirstChoiceVerbatim ==
    (Returned /\ GotSuccess /\ resp.readOk /\ resp.doc.valid
        /\ resp.doc.choices # <<>>) =>
        /\ chatResult.ok
        /\ chatResult.val = resp.doc.choices[1]

C7_Witness ==
    /\ Returned
    /\ GotSuccess
    /\ resp.doc.valid
    /\ resp.doc.choices = << <<" ", "F", "\n">>, <<"f", "A">> >>
    /\ chatResult.val = <<" ", "F", "\n">>

\* the exchange of the chat call in progress ended in one of the failures
ExchangeFailed ==
    \/ resp.status = 0
    \/ GotFailure
    \/ ~resp.readOk
    \/ ~resp.doc.valid
    \/ resp.doc.choices = <<>>

\* C8: a chat call that is past its send has put exactly one request on the
\* wire, a POST to the endpoint of the resolved client, and no second one
\* whatever the outcome; a call whose exchange failed returned a failure, and
\* no chat call follows a failed one.
C8_OneRoundTrip ==
    /\ chat.state \in {"sent", "ret"} => Len(wire) = 1
    /\ \A i \in 1..Len(wire) :
        /\ wire[i].method = "POST"
        /\ wire[i].url = newResult.val.base_url
    /\ (Returned /\ ExchangeFailed) =>
        /\ ~chatResult.ok
        /\ chatLog[Len(chatLog)].res = chatResult
    /\ \A i \in 1..Len(chatLog) :
        (chatLog[i].done /\ ~chatLog[i].res.ok) => i = Len(chatLog)

\* What holds of chat() itself: it calls send() once per call, hands back
\* every failure of the exchange, and a handler makes no call after a failed
\* one; the requests beyond the first are those of followed redirections.
OneSendPerCall ==
    /\ Len(requests) = Len(chatLog) - (IF chat.state = "call" THEN 1 ELSE 0)
    /\ Len(wire) <= 1 + MaxRedirects
    /\ (chat.state \in {"sent", "ret"} /\ wire = <<>>) =>
        (~is_valid_header_value(llm.api_key) /\ ~chatResult.ok)
    /\ (Returned /\ ExchangeFailed) =>
        /\ ~chatResult.ok
        /\ chatLog[Len(chatLog)].res = chatResult
    /\ \A i \in 1..Len(chatLog) :
        (chatLog[i].done /\ ~chatLog[i].res.ok) => i = Len(chatLog)

\* an LLM call of the handler has failed
LlmFailures ==
    {i \in 1..Len(chatLog) : chatLog[i].done /\ ~chatLog[i].res.ok}

\* the number of chat calls a handler makes
ChatCalls == IF cmd.name = "pr" THEN 2 ELSE 1

\* C9: a side effect has been attempted only if LlmClient::new and every
\* chat call of the handler succeeded before; after a failed LLM call no side
\* effect is ever attempted and run() returns the error of that call.
C9_NoEffectWithoutLlm ==
    /\ effects # <<>> =>
        /\ newResult.ok
        /\ Len(chatLog) = ChatCalls
        /\ \A i \in 1..Len(chatLog) : chatLog[i].done /\ chatLog[i].res.ok
    /\ (NewCalled /\ ~newResult.ok) =>
        /\ effects = <<>>
        /\ pc = "done" /\ ~result.ok /\ result.err = newResult.err
    /\ \A i \in LlmFailures :
        /\ effects = <<>>
        /\ pc \in {"await_message", "await_title", "await_body", "done"}
        /\ pc = "done" => (~result.ok /\ result.err = chatLog[i].res.err)

C9_Witness ==
    /\ cmd.name = "pr"
    /\ pc = "done"
    /\ Len(chatLog) = 2
    /\ chatLog[1].res.ok
    /\ ~chatLog[2].res.ok
    /\ effects = <<>>
    /\ ~result.ok

Pushes == {i \in 1..Len(effects) : effects[i].prog = "git push"}
Creations == {i \in 1..Len(effects) : effects[i].prog = "gh pr create"}

\* C10: in the pull-request handler, git push is attempted at most once, only
\* after a confirmation and only when has_upstream() answered no; gh pr create
\* is attempted only after a confirmation and when the branch has an upstream,
\* detected or set by a push that succeeded before; a push that did not
\* succeed ends the run with an error and without gh pr create; a declined
\* confirmation ends the run with Ok and without any side effect.
C10_PushBeforeCreate ==
    cmd.name = "pr" =>
        /\ Cardinality(Pushes) <= 1
        /\ Pushes # {} => (confirmed = "yes" /\ detected = "no")
        /\ \A g \in Creations :
            /\ confirmed = "yes"
            /\ upstream
            /\ \/ detected = "yes"
               \/ \E p \in Pushes : p < g /\ effects[p].outcome = "success"
        /\ \A p \in Pushes :
            effects[p].outcome # "success" =>
                (Creations = {} /\ pc = "done" /\ ~result.ok)
        /\ confirmed = "no" => (effects = <<>> /\ pc = "done" /\ result.ok)

C10_Witness ==
    /\ cmd.name = "pr"
    /\ detected = "no"
    /\ Len(effects) = 2
    /\ effects[1].prog = "git push"
    /\ effects[1].outcome = "success"
    /\ effects[2].prog = "gh pr create"

=============================================================================
